---------------------------- MODULE Spec2Model ----------------------------
(***************************************************************************)
(* A model of testsuite/single_node_performance.py: the single-node        *)
(* performance gate.  The script runs a prerequisite Move e2e benchmark,   *)
(* parses the calibration table, warms up a database, and then, for every  *)
(* test of the catalog selected in the active flow, derives a Criteria     *)
(* band, runs the benchmark, extracts its throughput and classifies it     *)
(* against the band, accumulating errors and warnings that decide the      *)
(* process exit status.                                                    *)
(*                                                                         *)
(* Numbers.  The script computes in IEEE doubles.  Here a throughput is an *)
(* integer count of 1/TpsScale transactions per second and a ratio an      *)
(* integer count of 1/RatioScale; every threshold is the exact rational    *)
(* value of the source expression rounded down to the throughput grid,     *)
(* and pow(x, 0.8) is the exact real value rounded down to 1/PowScale.     *)
(* TLC's integers are 32 bits wide, so products are taken on base-10000    *)
(* digit sequences (BigOf and the operators after it).                    *)
(***************************************************************************)
EXTENDS Integers, Sequences, FiniteSets, TLC

-----------------------------------------------------------------------------

(* Optional[...] values. *)
None == <<>>
Some(v) == <<v>>
IsNone(o) == o = <<>>
Get(o) == o[1]

Abs(n) == IF n < 0 THEN -n ELSE n

RECURSIVE Pow10(_)
Pow10(d) == IF d = 0 THEN 1 ELSE 10 * Pow10(d - 1)

(* Fixed-point scales of the number representation: throughputs carry one  *)
(* decimal (the calibration medians do), ratios three (the calibration     *)
(* ratios do), pow() results five.                                         *)
TpsScale == Pow10(1)
RatioScale == Pow10(3)
PowScale == Pow10(5)
BigBase == Pow10(4)

(* A literal of n transactions per second. *)
Tps(n) == n * TpsScale

-----------------------------------------------------------------------------
(* Non-negative integers as little-endian sequences of base-BigBase digits. *)
RECURSIVE BigOf(_)
BigOf(n) == IF n = 0 THEN <<>> ELSE <<n % BigBase>> \o BigOf(n \div BigBase)

RECURSIVE BigMulSmall(_, _, _)
BigMulSmall(ds, m, carry) ==
  IF ds = <<>>
  THEN BigOf(carry)
  ELSE LET v == Head(ds) * m + carry
       IN <<v % BigBase>> \o BigMulSmall(Tail(ds), m, v \div BigBase)

(* Quotient (digits, possibly with high zeros) and remainder of ds / d. *)
RECURSIVE BigDivSmall(_, _)
BigDivSmall(ds, d) ==
  IF ds = <<>>
  THEN [q |-> <<>>, r |-> 0]
  ELSE LET hi == BigDivSmall(Tail(ds), d)
           cur == hi.r * BigBase + Head(ds)
       IN [q |-> <<cur \div d>> \o hi.q, r |-> cur % d]

RECURSIVE BigToInt(_)
BigToInt(ds) == IF ds = <<>> THEN 0 ELSE Head(ds) + BigBase * BigToInt(Tail(ds))

(* -1, 0 or 1 as a < b, a = b or a > b. *)
RECURSIVE BigCmp(_, _)
BigCmp(a, b) ==
  IF a = <<>> /\ b = <<>>
  THEN 0
  ELSE LET ha == IF a = <<>> THEN 0 ELSE Head(a)
           hb == IF b = <<>> THEN 0 ELSE Head(b)
           ta == IF a = <<>> THEN <<>> ELSE Tail(a)
           tb == IF b = <<>> THEN <<>> ELSE Tail(b)
           c == BigCmp(ta, tb)
       IN IF c # 0 THEN c ELSE IF ha < hb THEN -1 ELSE IF ha > hb THEN 1 ELSE 0

RECURSIVE BigMulTimes(_, _, _)
BigMulTimes(ds, m, k) ==
  IF k = 0 THEN ds ELSE BigMulTimes(BigMulSmall(ds, m, 0), m, k - 1)

(* floor(a * n / d) for a >= 0, d > 0 and any integer n. *)
MulDiv(a, n, d) ==
  LET qr == BigDivSmall(BigMulSmall(BigOf(a), Abs(n), 0), d)
      q == BigToInt(qr.q)
  IN IF n >= 0 THEN q ELSE IF qr.r = 0 THEN -q ELSE -(q + 1)

(* floor(PowScale * (x / RatioScale)^0.8): the largest y with              *)
(* (y / PowScale)^5 <= (x / RatioScale)^4, found by bisection on [lo, hi). *)
PowLeq(y, x) ==
  BigCmp(BigMulTimes(BigMulTimes(<<1>>, y, 5), RatioScale, 4),
         BigMulTimes(BigMulTimes(<<1>>, x, 4), PowScale, 5)) <= 0

RECURSIVE PowBisect(_, _, _)
PowBisect(x, lo, hi) ==
  IF hi - lo <= 1
  THEN lo
  ELSE LET mid == (lo + hi) \div 2
       IN IF PowLeq(mid, x) THEN PowBisect(x, mid, hi) ELSE PowBisect(x, lo, mid)

-----------------------------------------------------------------------------
(* class Flow *)
Flows ==
  {"LAND_BLOCKING", "CONTINUOUS", "REPRESENTATIVE", "MAINNET",
   "MAINNET_LARGE_DB", "AGG_V2", "RESOURCE_GROUPS"}

IS_MAINNET(flow) == flow \in {"MAINNET", "MAINNET_LARGE_DB"}

NOISE_LOWER_LIMIT(flow) == IF IS_MAINNET(flow) THEN 980 ELSE 800
NOISE_LOWER_LIMIT_WARN == 900
NOISE_UPPER_LIMIT == 1150
NOISE_UPPER_LIMIT_WARN == 1050

(* A variant that forgets the large-database flow. *)
SkipNoticeInMainnetAlone(flow) == flow = "MAINNET"

SKIP_PERF_IMPROVEMENT_NOTICE(flow) == IS_MAINNET(flow)

(* A variant that never skips the native-executor tests. *)
SkipNativeNever(disable_fa_apt) == FALSE

(* SKIP_NATIVE is False exactly when DISABLE_FA_APT is set. *)
SKIP_NATIVE(disable_fa_apt) == ~disable_fa_apt

(* RunGroupKey, RunGroupKeyExtra, RunGroupConfig *)
Key(tt, size, exec) ==
  [transaction_type |-> tt, module_working_set_size |-> size, executor_type |-> exec]

Extra(tto, two, stf) ==
  [transaction_type_override |-> tto, transaction_weights_override |-> two,
   sharding_traffic_flags |-> stf]

Config(key, included_in, expected_tps, key_extra, waived) ==
  [key |-> key, included_in |-> included_in, expected_tps |-> expected_tps,
   key_extra |-> key_extra, waived |-> waived]

(* A field of a calibration line: a word, or a decimal numeral with        *)
(* mantissa m and d digits after the point ("0.922" is N(922, 3)).         *)
W(w) == [kind |-> "word", w |-> w, m |-> 0, d |-> 0]
N(m, d) == [kind |-> "num", w |-> "", m |-> m, d |-> d]

CALIBRATED_TPS_INDEX == -1
CALIBRATED_COUNT_INDEX == -4
CALIBRATED_MIN_RATIO_INDEX == -3
CALIBRATED_MAX_RATIO_INDEX == -2

(* The lines of CALIBRATION.split("\n"), each split on the separator. *)
CALIBRATION ==
  <<
    <<>>,
    <<W("no-op"), N(1, 0), W("VM"), N(15, 0), N(922, 3), N(106, 2), N(427377, 1)>>,
    <<W("no-op"), N(1000, 0), W("VM"), N(15, 0), N(879, 3), N(1024, 3), N(233739, 1)>>,
    <<W("apt-fa-transfer"), N(1, 0), W("VM"), N(15, 0), N(934, 3), N(1068, 3), N(299631, 1)>>,
    <<W("account-generation"), N(1, 0), W("VM"), N(15, 0), N(871, 3), N(1016, 3), N(245679, 1)>>,
    <<W("account-resource32-b"), N(1, 0), W("VM"), N(8, 0), N(879, 3), N(1048, 3), N(380633, 1)>>,
    <<W("modify-global-resource"), N(1, 0), W("VM"), N(15, 0), N(971, 3), N(1023, 3), N(28395, 1)>>,
    <<W("modify-global-resource"), N(100, 0), W("VM"), N(8, 0), N(927, 3), N(1015, 3), N(374248, 1)>>,
    <<W("publish-package"), N(1, 0), W("VM"), N(15, 0), N(963, 3), N(1036, 3), N(1434, 1)>>,
    <<W("mix_publish_transfer"), N(1, 0), W("VM"), N(15, 0), N(968, 3), N(1048, 3), N(2175, 0)>>,
    <<W("batch100-transfer"), N(1, 0), W("VM"), N(15, 0), N(88, 2), N(1014, 3), N(7705, 1)>>,
    <<W("vector-picture30k"), N(1, 0), W("VM"), N(15, 0), N(98, 2), N(1025, 3), N(1106, 1)>>,
    <<W("vector-picture30k"), N(100, 0), W("VM"), N(8, 0), N(894, 3), N(1029, 3), N(20338, 1)>>,
    <<W("smart-table-picture30-k-with200-change"), N(1, 0), W("VM"), N(15, 0), N(974, 3), N(1062, 3), N(215, 1)>>,
    <<W("smart-table-picture30-k-with200-change"), N(100, 0), W("VM"), N(8, 0), N(983, 3), N(1038, 3), N(4115, 1)>>,
    <<W("modify-global-resource-agg-v2"), N(1, 0), W("VM"), N(15, 0), N(867, 3), N(1082, 3), N(389977, 1)>>,
    <<W("modify-global-flag-agg-v2"), N(1, 0), W("VM"), N(8, 0), N(989, 3), N(1008, 3), N(56485, 1)>>,
    <<W("modify-global-bounded-agg-v2"), N(1, 0), W("VM"), N(8, 0), N(942, 3), N(102, 2), N(103031, 1)>>,
    <<W("modify-global-milestone-agg-v2"), N(1, 0), W("VM"), N(8, 0), N(957, 3), N(1017, 3), N(298516, 1)>>,
    <<W("resource-groups-global-write-tag1-kb"), N(1, 0), W("VM"), N(15, 0), N(869, 3), N(1052, 3), N(93915, 1)>>,
    <<W("resource-groups-global-write-and-read-tag1-kb"), N(1, 0), W("VM"), N(8, 0), N(963, 3), N(1008, 3), N(64327, 1)>>,
    <<W("resource-groups-sender-write-tag1-kb"), N(1, 0), W("VM"), N(8, 0), N(982, 3), N(1086, 3), N(201212, 1)>>,
    <<W("resource-groups-sender-multi-change1-kb"), N(1, 0), W("VM"), N(15, 0), N(857, 3), N(1065, 3), N(168629, 1)>>,
    <<W("token-v1ft-mint-and-transfer"), N(1, 0), W("VM"), N(8, 0), N(962, 3), N(1035, 3), N(12926, 1)>>,
    <<W("token-v1ft-mint-and-transfer"), N(100, 0), W("VM"), N(8, 0), N(918, 3), N(1025, 3), N(187477, 1)>>,
    <<W("token-v1nft-mint-and-transfer-sequential"), N(1, 0), W("VM"), N(8, 0), N(973, 3), N(1023, 3), N(8055, 1)>>,
    <<W("token-v1nft-mint-and-transfer-sequential"), N(100, 0), W("VM"), N(8, 0), N(902, 3), N(1015, 3), N(133332, 1)>>,
    <<W("coin-init-and-mint"), N(1, 0), W("VM"), N(8, 0), N(878, 3), N(1036, 3), N(310568, 1)>>,
    <<W("coin-init-and-mint"), N(100, 0), W("VM"), N(8, 0), N(906, 3), N(1032, 3), N(258688, 1)>>,
    <<W("fungible-asset-mint"), N(1, 0), W("VM"), N(15, 0), N(874, 3), N(1019, 3), N(280454, 1)>>,
    <<W("fungible-asset-mint"), N(100, 0), W("VM"), N(8, 0), N(928, 3), N(1047, 3), N(21876, 0)>>,
    <<W("no-op5-signers"), N(1, 0), W("VM"), N(8, 0), N(897, 3), N(1056, 3), N(429701, 1)>>,
    <<W("token-v2-ambassador-mint"), N(1, 0), W("VM"), N(15, 0), N(942, 3), N(1031, 3), N(178426, 1)>>,
    <<W("token-v2-ambassador-mint"), N(100, 0), W("VM"), N(8, 0), N(944, 3), N(1042, 3), N(162703, 1)>>,
    <<W("liquidity-pool-swap"), N(1, 0), W("VM"), N(15, 0), N(968, 3), N(1024, 3), N(9724, 1)>>,
    <<W("liquidity-pool-swap"), N(100, 0), W("VM"), N(8, 0), N(964, 3), N(1043, 3), N(112971, 1)>>,
    <<W("liquidity-pool-swap-stable"), N(1, 0), W("VM"), N(8, 0), N(955, 3), N(103, 2), N(9363, 1)>>,
    <<W("liquidity-pool-swap-stable"), N(100, 0), W("VM"), N(8, 0), N(949, 3), N(104, 2), N(111163, 1)>>,
    <<W("deserialize-u256"), N(1, 0), W("VM"), N(8, 0), N(935, 3), N(1043, 3), N(415899, 1)>>,
    <<W("no-op-fee-payer"), N(1, 0), W("VM"), N(15, 0), N(97, 2), N(1044, 3), N(21245, 1)>>,
    <<W("no-op-fee-payer"), N(100, 0), W("VM"), N(8, 0), N(934, 3), N(1023, 3), N(287172, 1)>>,
    <<>>
  >>

DEFAULT_MODULE_WORKING_SET_SIZE == 100

TESTS ==
  <<
    Config(Key("no-op", 1, "VM"), {"LAND_BLOCKING", "CONTINUOUS"}, None, Extra(None, None, None), FALSE),
    Config(Key("no-op", 1000, "VM"), {"LAND_BLOCKING", "CONTINUOUS"}, None, Extra(None, None, None), FALSE),
    Config(Key("apt-fa-transfer", 1, "VM"), {"LAND_BLOCKING", "CONTINUOUS", "REPRESENTATIVE", "MAINNET"}, None, Extra(None, None, None), FALSE),
    Config(Key("apt-fa-transfer", 1, "native"), {"LAND_BLOCKING", "CONTINUOUS"}, None, Extra(None, None, None), FALSE),
    Config(Key("account-generation", 1, "VM"), {"LAND_BLOCKING", "CONTINUOUS", "REPRESENTATIVE", "MAINNET"}, None, Extra(None, None, None), FALSE),
    Config(Key("account-generation", 1, "native"), {"CONTINUOUS"}, None, Extra(None, None, None), FALSE),
    Config(Key("account-resource32-b", 1, "VM"), {"CONTINUOUS"}, None, Extra(None, None, None), FALSE),
    Config(Key("modify-global-resource", 1, "VM"), {"LAND_BLOCKING", "CONTINUOUS", "REPRESENTATIVE"}, None, Extra(None, None, None), FALSE),
    Config(Key("modify-global-resource", DEFAULT_MODULE_WORKING_SET_SIZE, "VM"), {"CONTINUOUS"}, None, Extra(None, None, None), FALSE),
    Config(Key("publish-package", 1, "VM"), {"LAND_BLOCKING", "CONTINUOUS", "REPRESENTATIVE", "MAINNET"}, None, Extra(None, None, None), FALSE),
    Config(Key("mix_publish_transfer", 1, "VM"), {"LAND_BLOCKING", "CONTINUOUS"}, None, Extra(Some("publish-package apt-fa-transfer"), Some("1 500"), None), FALSE),
    Config(Key("batch100-transfer", 1, "VM"), {"LAND_BLOCKING", "CONTINUOUS"}, None, Extra(None, None, None), FALSE),
    Config(Key("batch100-transfer", 1, "native"), {"CONTINUOUS"}, None, Extra(None, None, None), FALSE),
    Config(Key("vector-picture40", 1, "VM"), {}, Some(Tps(100)), Extra(None, None, None), TRUE),
    Config(Key("vector-picture40", DEFAULT_MODULE_WORKING_SET_SIZE, "VM"), {}, Some(Tps(1000)), Extra(None, None, None), TRUE),
    Config(Key("vector-picture30k", 1, "VM"), {"LAND_BLOCKING", "CONTINUOUS"}, None, Extra(None, None, None), FALSE),
    Config(Key("vector-picture30k", DEFAULT_MODULE_WORKING_SET_SIZE, "VM"), {"CONTINUOUS"}, None, Extra(None, None, None), FALSE),
    Config(Key("smart-table-picture30-k-with200-change", 1, "VM"), {"LAND_BLOCKING", "CONTINUOUS"}, None, Extra(None, None, None), FALSE),
    Config(Key("smart-table-picture30-k-with200-change", DEFAULT_MODULE_WORKING_SET_SIZE, "VM"), {"CONTINUOUS"}, None, Extra(None, None, None), FALSE),
    Config(Key("modify-global-resource-agg-v2", 1, "VM"), {"LAND_BLOCKING", "CONTINUOUS", "AGG_V2"}, None, Extra(None, None, None), FALSE),
    Config(Key("modify-global-resource-agg-v2", DEFAULT_MODULE_WORKING_SET_SIZE, "VM"), {"AGG_V2"}, Some(Tps(10000)), Extra(None, None, None), TRUE),
    Config(Key("modify-global-flag-agg-v2", 1, "VM"), {"CONTINUOUS", "AGG_V2"}, None, Extra(None, None, None), FALSE),
    Config(Key("modify-global-flag-agg-v2", DEFAULT_MODULE_WORKING_SET_SIZE, "VM"), {"AGG_V2"}, Some(Tps(10000)), Extra(None, None, None), TRUE),
    Config(Key("modify-global-bounded-agg-v2", 1, "VM"), {"CONTINUOUS", "AGG_V2"}, None, Extra(None, None, None), FALSE),
    Config(Key("modify-global-bounded-agg-v2", DEFAULT_MODULE_WORKING_SET_SIZE, "VM"), {"AGG_V2"}, Some(Tps(10000)), Extra(None, None, None), TRUE),
    Config(Key("modify-global-milestone-agg-v2", 1, "VM"), {"CONTINUOUS", "AGG_V2"}, None, Extra(None, None, None), FALSE),
    Config(Key("resource-groups-global-write-tag1-kb", 1, "VM"), {"LAND_BLOCKING", "CONTINUOUS", "RESOURCE_GROUPS"}, None, Extra(None, None, None), FALSE),
    Config(Key("resource-groups-global-write-tag1-kb", DEFAULT_MODULE_WORKING_SET_SIZE, "VM"), {"RESOURCE_GROUPS"}, Some(Tps(8000)), Extra(None, None, None), TRUE),
    Config(Key("resource-groups-global-write-and-read-tag1-kb", 1, "VM"), {"CONTINUOUS", "RESOURCE_GROUPS"}, None, Extra(None, None, None), FALSE),
    Config(Key("resource-groups-global-write-and-read-tag1-kb", DEFAULT_MODULE_WORKING_SET_SIZE, "VM"), {"RESOURCE_GROUPS"}, Some(Tps(8000)), Extra(None, None, None), TRUE),
    Config(Key("resource-groups-sender-write-tag1-kb", 1, "VM"), {"CONTINUOUS", "RESOURCE_GROUPS"}, None, Extra(None, None, None), FALSE),
    Config(Key("resource-groups-sender-write-tag1-kb", DEFAULT_MODULE_WORKING_SET_SIZE, "VM"), {"RESOURCE_GROUPS"}, Some(Tps(8000)), Extra(None, None, None), TRUE),
    Config(Key("resource-groups-sender-multi-change1-kb", 1, "VM"), {"LAND_BLOCKING", "CONTINUOUS", "RESOURCE_GROUPS"}, None, Extra(None, None, None), FALSE),
    Config(Key("resource-groups-sender-multi-change1-kb", DEFAULT_MODULE_WORKING_SET_SIZE, "VM"), {"RESOURCE_GROUPS"}, Some(Tps(8000)), Extra(None, None, None), TRUE),
    Config(Key("token-v1ft-mint-and-transfer", 1, "VM"), {"CONTINUOUS"}, None, Extra(None, None, None), FALSE),
    Config(Key("token-v1ft-mint-and-transfer", DEFAULT_MODULE_WORKING_SET_SIZE, "VM"), {"CONTINUOUS"}, None, Extra(None, None, None), FALSE),
    Config(Key("token-v1nft-mint-and-transfer-sequential", 1, "VM"), {"CONTINUOUS"}, None, Extra(None, None, None), FALSE),
    Config(Key("token-v1nft-mint-and-transfer-sequential", DEFAULT_MODULE_WORKING_SET_SIZE, "VM"), {"CONTINUOUS"}, None, Extra(None, None, None), FALSE),
    Config(Key("token-v1nft-mint-and-transfer-parallel", 1, "VM"), {}, Some(Tps(1300)), Extra(None, None, None), TRUE),
    Config(Key("token-v1nft-mint-and-transfer-parallel", DEFAULT_MODULE_WORKING_SET_SIZE, "VM"), {}, Some(Tps(5300)), Extra(None, None, None), TRUE),
    Config(Key("coin-init-and-mint", 1, "VM"), {"CONTINUOUS"}, None, Extra(None, None, None), FALSE),
    Config(Key("coin-init-and-mint", DEFAULT_MODULE_WORKING_SET_SIZE, "VM"), {"CONTINUOUS"}, None, Extra(None, None, None), FALSE),
    Config(Key("fungible-asset-mint", 1, "VM"), {"LAND_BLOCKING", "CONTINUOUS"}, None, Extra(None, None, None), FALSE),
    Config(Key("fungible-asset-mint", DEFAULT_MODULE_WORKING_SET_SIZE, "VM"), {"CONTINUOUS"}, None, Extra(None, None, None), FALSE),
    Config(Key("no-op5-signers", 1, "VM"), {"CONTINUOUS"}, None, Extra(None, None, None), FALSE),
    Config(Key("token-v2-ambassador-mint", 1, "VM"), {"LAND_BLOCKING", "CONTINUOUS", "REPRESENTATIVE", "MAINNET"}, None, Extra(None, None, None), FALSE),
    Config(Key("token-v2-ambassador-mint", DEFAULT_MODULE_WORKING_SET_SIZE, "VM"), {"CONTINUOUS"}, None, Extra(None, None, None), FALSE),
    Config(Key("liquidity-pool-swap", 1, "VM"), {"LAND_BLOCKING", "CONTINUOUS", "REPRESENTATIVE"}, None, Extra(None, None, None), FALSE),
    Config(Key("liquidity-pool-swap", DEFAULT_MODULE_WORKING_SET_SIZE, "VM"), {"CONTINUOUS"}, None, Extra(None, None, None), FALSE),
    Config(Key("liquidity-pool-swap-stable", 1, "VM"), {"CONTINUOUS"}, None, Extra(None, None, None), FALSE),
    Config(Key("liquidity-pool-swap-stable", DEFAULT_MODULE_WORKING_SET_SIZE, "VM"), {"CONTINUOUS"}, None, Extra(None, None, None), FALSE),
    Config(Key("deserialize-u256", 1, "VM"), {"CONTINUOUS"}, None, Extra(None, None, None), FALSE),
    Config(Key("no-op-fee-payer", 1, "VM"), {"LAND_BLOCKING", "CONTINUOUS"}, None, Extra(None, None, None), FALSE),
    Config(Key("no-op-fee-payer", DEFAULT_MODULE_WORKING_SET_SIZE, "VM"), {"CONTINUOUS"}, None, Extra(None, None, None), FALSE),
    Config(Key("coin_transfer_connected_components", 1, "sharded"), {"REPRESENTATIVE"}, Some(Tps(50000)), Extra(Some(""), None, Some("--connected-tx-grps 5000")), TRUE),
    Config(Key("coin_transfer_hotspot", 1, "sharded"), {"REPRESENTATIVE"}, Some(Tps(50000)), Extra(Some(""), None, Some("--hotspot-probability 0.8")), TRUE),
    Config(Key("apt-fa-transfer", 1, "VM"), {"MAINNET_LARGE_DB"}, Some(Tps(20000)), Extra(None, None, None), FALSE),
    Config(Key("account-generation", 1, "VM"), {"MAINNET_LARGE_DB"}, Some(Tps(15000)), Extra(None, None, None), FALSE),
    Config(Key("publish-package", 1, "VM"), {"MAINNET_LARGE_DB"}, Some(Tps(60)), Extra(None, None, None), FALSE),
    Config(Key("token-v2-ambassador-mint", 1, "VM"), {"MAINNET_LARGE_DB"}, Some(Tps(6800)), Extra(None, None, None), FALSE)
  >>

-----------------------------------------------------------------------------

(* int(field) and float(field): a word, and for int a numeral with a       *)
(* decimal point, raises ValueError.                                       *)
IntParses(tok) == tok.kind = "num" /\ tok.d = 0
ParseInt(tok) == tok.m
FloatParses(tok) == tok.kind = "num"
ParseFloat(tok, scale) == (tok.m * scale) \div Pow10(tok.d)

(* parts[i] for a Python index i, negative counting from the end. *)
IndexOK(parts, i) == IF i >= 0 THEN i < Len(parts) ELSE -i <= Len(parts)
At(parts, i) == IF i >= 0 THEN parts[i + 1] ELSE parts[Len(parts) + i + 1]

(* The rows the comprehension keeps: lines with at least one field. *)
CalibrationRows(lines) == SelectSeq(lines, LAMBDA parts : Len(parts) >= 1)

RowParses(parts) ==
  /\ \A i \in {0, 1, 2, CALIBRATED_TPS_INDEX, CALIBRATED_COUNT_INDEX,
               CALIBRATED_MIN_RATIO_INDEX, CALIBRATED_MAX_RATIO_INDEX} :
       IndexOK(parts, i)
  /\ IntParses(At(parts, 1))
  /\ FloatParses(At(parts, CALIBRATED_TPS_INDEX))
  /\ IntParses(At(parts, CALIBRATED_COUNT_INDEX))
  /\ FloatParses(At(parts, CALIBRATED_MIN_RATIO_INDEX))
  /\ FloatParses(At(parts, CALIBRATED_MAX_RATIO_INDEX))

(* The text of a field: a word, or the digits of a numeral. *)
RECURSIVE Digits(_, _)
Digits(n, d) == IF d = 0 THEN "" ELSE Digits(n \div 10, d - 1) \o ToString(n % 10)

FieldText(tok) ==
  IF tok.kind = "word"
  THEN tok.w
  ELSE ToString(tok.m \div Pow10(tok.d))
         \o (IF tok.d = 0 THEN "" ELSE "." \o Digits(tok.m % Pow10(tok.d), tok.d))

RowKey(parts) ==
  Key(FieldText(At(parts, 0)), ParseInt(At(parts, 1)), FieldText(At(parts, 2)))

CalibrationData(expected_tps, count, min_ratio, max_ratio) ==
  [expected_tps |-> expected_tps, count |-> count,
   min_ratio |-> min_ratio, max_ratio |-> max_ratio]

(* A variant that reads the four values by position from the start. *)
RowDataFromStart(parts) ==
  CalibrationData(ParseFloat(At(parts, 6), TpsScale),
                  ParseInt(At(parts, 3)),
                  ParseFloat(At(parts, 4), RatioScale),
                  ParseFloat(At(parts, 5), RatioScale))

RowData(parts) ==
  CalibrationData(ParseFloat(At(parts, CALIBRATED_TPS_INDEX), TpsScale),
                  ParseInt(At(parts, CALIBRATED_COUNT_INDEX)),
                  ParseFloat(At(parts, CALIBRATED_MIN_RATIO_INDEX), RatioScale),
                  ParseFloat(At(parts, CALIBRATED_MAX_RATIO_INDEX), RatioScale))

CalibrationParses(lines) ==
  \A i \in 1..Len(CalibrationRows(lines)) : RowParses(CalibrationRows(lines)[i])

(* The dict comprehension: of several rows with one key the last stays. *)
ParseCalibrationTable(lines) ==
  LET rows == CalibrationRows(lines)
      keys == {RowKey(rows[i]) : i \in 1..Len(rows)}
      last(k) == CHOOSE i \in 1..Len(rows) :
                   /\ RowKey(rows[i]) = k
                   /\ \A j \in (i + 1)..Len(rows) : RowKey(rows[j]) # k
  IN [key \in keys |-> RowData(rows[last(key)])]

(* The calibration rows the threshold calculation is also run on, besides  *)
(* the shipped ones: counts up to MaxCount (zero included), ratios from    *)
(* the ends and the middle of their ranges, a tiny and a large throughput. *)
MaxCount == 2
CalcCounts == 0..MaxCount
CalcMinRatios == {N(5, 1), N(857, 3), N(10, 1)}
CalcMaxRatios == {N(10, 1), N(1086, 3), N(20, 1)}
CalcTps == {N(1, 1), N(427377, 1)}

(* pow(x, 0.8) of a ratio x <= 2, on the PowScale grid.  The values at the *)
(* ratios above and of the shipped table are computed once (TLC evaluates  *)
(* a constant definition a single time); any other is computed on demand.  *)
Pow08Bisect(x) == PowBisect(x, 0, 2 * PowScale + 1)

ShippedRatios ==
  LET rows == CalibrationRows(CALIBRATION)
  IN UNION {{RowData(rows[i]).min_ratio, RowData(rows[i]).max_ratio} :
              i \in 1..Len(rows)}

KnownRatios ==
  ShippedRatios
    \cup {ParseFloat(tok, RatioScale) : tok \in CalcMinRatios \cup CalcMaxRatios}

Pow08Known == {<<x, Pow08Bisect(x)>> : x \in KnownRatios}

Pow08(x) ==
  IF x \in KnownRatios
  THEN (CHOOSE p \in Pow08Known : p[1] = x)[2]
  ELSE Pow08Bisect(x)

-----------------------------------------------------------------------------
(* class Criteria *)
Criteria(expected_tps, min_tps, min_warn_tps, max_tps, max_warn_tps) ==
  [expected_tps |-> expected_tps, min_tps |-> min_tps,
   min_warn_tps |-> min_warn_tps, max_tps |-> max_tps,
   max_warn_tps |-> max_warn_tps]

(* The static-override path. *)
StaticCriteria(expected_tps, flow) ==
  Criteria(expected_tps,
           MulDiv(expected_tps, NOISE_LOWER_LIMIT(flow), RatioScale),
           MulDiv(expected_tps, NOISE_LOWER_LIMIT_WARN, RatioScale),
           MulDiv(expected_tps, NOISE_UPPER_LIMIT, RatioScale),
           MulDiv(expected_tps, NOISE_UPPER_LIMIT_WARN, RatioScale))

(* A variant whose allowance for few samples has the sign of 10 / count    *)
(* reversed: (1 - min_ratio) * (1 - 10 / count).                           *)
MinTpsFactorAllowanceReversed(cal) ==
  RatioScale * cal.count
    - (RatioScale - cal.min_ratio) * (cal.count - 10)
    - RatioScale

(* RatioScale * count * (1 - (1 - min_ratio) * (1 + 10 / count) - 1 / count) *)
MinTpsFactor(cal) ==
  RatioScale * cal.count
    - (RatioScale - cal.min_ratio) * (cal.count + 10)
    - RatioScale

(* RatioScale * count * (1 + (max_ratio - 1) * (1 + 10 / count) + 1 / count) *)
MaxTpsFactor(cal) ==
  RatioScale * cal.count
    + (cal.max_ratio - RatioScale) * (cal.count + 10)
    + RatioScale

(* A variant with the two upper thresholds passed in each other's place. *)
CalibratedCriteriaUpperSwapped(cal) ==
  Criteria(cal.expected_tps,
           MulDiv(cal.expected_tps, MinTpsFactor(cal), RatioScale * cal.count),
           MulDiv(cal.expected_tps, Pow08(cal.min_ratio), PowScale),
           MulDiv(cal.expected_tps, Pow08(cal.max_ratio), PowScale),
           MulDiv(cal.expected_tps, MaxTpsFactor(cal), RatioScale * cal.count))

(* The calibrated path; count = 0 raises ZeroDivisionError. *)
CalibratedCriteria(cal) ==
  Criteria(cal.expected_tps,
           MulDiv(cal.expected_tps, MinTpsFactor(cal), RatioScale * cal.count),
           MulDiv(cal.expected_tps, Pow08(cal.min_ratio), PowScale),
           MulDiv(cal.expected_tps, MaxTpsFactor(cal), RatioScale * cal.count),
           MulDiv(cal.expected_tps, Pow08(cal.max_ratio), PowScale))

(* Lines 608-619: the override wins; otherwise the key is looked up. *)
ThresholdsConfigured(test, table) ==
  ~IsNone(test.expected_tps) \/ test.key \in DOMAIN table

(* The Criteria of the shipped table's entries, computed once. *)
ShippedCriteria ==
  LET rows == CalibrationRows(CALIBRATION)
  IN {<<RowData(rows[i]), CalibratedCriteria(RowData(rows[i]))>> :
        i \in 1..Len(rows)}

CalibratedCriteriaOf(cal) ==
  IF \E p \in ShippedCriteria : p[1] = cal
  THEN (CHOOSE p \in ShippedCriteria : p[1] = cal)[2]
  ELSE CalibratedCriteria(cal)

(* A variant that prefers a usable table entry to the override. *)
ComputeCriteriaTableFirst(test, table, flow) ==
  IF test.key \in DOMAIN table /\ table[test.key].count > 0
  THEN CalibratedCriteriaOf(table[test.key])
  ELSE StaticCriteria(Get(test.expected_tps), flow)

ComputeCriteria(test, table, flow) ==
  IF ~IsNone(test.expected_tps)
  THEN StaticCriteria(Get(test.expected_tps), flow)
  ELSE CalibratedCriteriaOf(table[test.key])

-----------------------------------------------------------------------------
(* Variants of the chain: the improvement branch lost, and a threshold    *)
(* itself taken into the hard tier on the low and on the high side.       *)
TierWithoutImprovement(tps, c, skip_improvement) ==
  IF tps < c.min_tps THEN "regression"
  ELSE IF tps < c.min_warn_tps THEN "soft_low"
  ELSE IF ~skip_improvement /\ tps > c.max_warn_tps THEN "soft_high"
  ELSE "pass"

TierMinTpsInclusive(tps, c, skip_improvement) ==
  IF tps <= c.min_tps THEN "regression"
  ELSE IF tps < c.min_warn_tps THEN "soft_low"
  ELSE IF ~skip_improvement /\ tps > c.max_tps THEN "improvement"
  ELSE IF ~skip_improvement /\ tps > c.max_warn_tps THEN "soft_high"
  ELSE "pass"

TierMaxTpsInclusive(tps, c, skip_improvement) ==
  IF tps < c.min_tps THEN "regression"
  ELSE IF tps < c.min_warn_tps THEN "soft_low"
  ELSE IF ~skip_improvement /\ tps >= c.max_tps THEN "improvement"
  ELSE IF ~skip_improvement /\ tps > c.max_warn_tps THEN "soft_high"
  ELSE "pass"

(* The if/elif chain of lines 787-810. *)
Tier(tps, c, skip_improvement) ==
  IF tps < c.min_tps THEN "regression"
  ELSE IF tps < c.min_warn_tps THEN "soft_low"
  ELSE IF ~skip_improvement /\ tps > c.max_tps THEN "improvement"
  ELSE IF ~skip_improvement /\ tps > c.max_warn_tps THEN "soft_high"
  ELSE "pass"

(* A variant that does not look at the waiver. *)
DestinationIgnoringWaiver(tier, waived) ==
  CASE tier \in {"regression", "improvement"} -> "errors"
    [] tier \in {"soft_low", "soft_high"} -> "warnings"
    [] OTHER -> "none"

(* The list a tier's text is appended to. *)
Destination(tier, waived) ==
  CASE tier \in {"regression", "improvement"} ->
         IF ~waived THEN "errors" ELSE "warnings"
    [] tier \in {"soft_low", "soft_high"} -> "warnings"
    [] OTHER -> "none"

(* The threshold a tier's text quotes. *)
Threshold(tier, c) ==
  CASE tier = "regression" -> c.min_tps
    [] tier = "soft_low" -> c.min_warn_tps
    [] tier = "improvement" -> c.max_tps
    [] tier = "soft_high" -> c.max_warn_tps
    [] OTHER -> c.expected_tps

(* What a text says: the tier, the measured and expected throughput, the   *)
(* threshold and the key.                                                  *)
Text(tier, tps, c, key) ==
  [tier |-> tier, tps |-> tps, expected_tps |-> c.expected_tps,
   threshold |-> Threshold(tier, c), key |-> key]

(* execute_command: how the process ends.  "nonzero" raises                *)
(* CmdExecutionError, "error_line" (an " ERROR " in the output) calls      *)
(* exit(1), which raises SystemExit.                                       *)
Outcomes == {"ok", "nonzero", "error_line"}

(* A launched process: its command, the test it belongs to (NoTest for a   *)
(* build, the prerequisite and the warmup) and whether it ended well.      *)
NoTest == None
Command(cmd, test, outcome) ==
  [cmd |-> cmd, test |-> test, ok |-> outcome = "ok"]

(* get_only: exactly one match, else AssertionError. *)
GetOnlyOK(values) == Len(values) = 1
get_only(values) == values[1]

RunGroupInstance(key, tps, expected_tps) ==
  [key |-> key, single_node_result |-> [tps |-> tps], expected_tps |-> expected_tps]

StageKey(key, stage) ==
  Key(key.transaction_type \o " [stage " \o ToString(stage) \o "]",
      key.module_working_set_size, key.executor_type)

-----------------------------------------------------------------------------
(* Bounds of the model.  In one run the outputs that are not the nominal   *)
(* one (the expected throughput, no stage sections) fall within a window   *)
(* of MaxDeviations consecutive executed tests, which may start at any     *)
(* test; an output holds at most MaxStages stage sections.                 *)
MaxDeviations == 1
MaxStages == 1

VARIABLES
  SELECTED_FLOW,              \* the FLOW environment variable
  DISABLE_FA_APT,             \* whether DISABLE_FA_APT is set
  SKIP_MOVE_E2E,              \* whether SKIP_MOVE_E2E is set
  pc,                         \* the statement the script is at
  exit_code,                  \* None while running, Some(status) after
  commands,                   \* the external processes launched so far
  move_e2e_benchmark_failed,
  calibrated_expected_tps,
  test_index,                 \* enumerate(TESTS): 0-based
  criteria,
  single_node_result,
  stage_node_results,
  results,
  errors,
  warnings,
  deviations,                 \* executed tests since the window opened
  output,                     \* the text of the process being extracted
  calibration                 \* the calibration text a calculation parsed

vars ==
  <<SELECTED_FLOW, DISABLE_FA_APT, SKIP_MOVE_E2E, pc, exit_code, commands,
    move_e2e_benchmark_failed, calibrated_expected_tps, test_index, criteria,
    single_node_result, stage_node_results, results, errors,
    warnings, deviations, output, calibration>>

env == <<SELECTED_FLOW, DISABLE_FA_APT, SKIP_MOVE_E2E>>
texts == <<output, calibration>>
loop_state == <<test_index, criteria, single_node_result, stage_node_results>>
lists == <<results, errors, warnings>>

NoCriteria == Criteria(0, 0, 0, 0, 0)

Init ==
  /\ SELECTED_FLOW \in Flows
  /\ DISABLE_FA_APT \in BOOLEAN
  /\ SKIP_MOVE_E2E \in BOOLEAN
  /\ pc = "move_e2e_build"
  /\ exit_code = None
  /\ commands = <<>>
  /\ move_e2e_benchmark_failed = FALSE
  /\ calibrated_expected_tps = <<>>
  /\ test_index = 0
  /\ criteria = NoCriteria
  /\ single_node_result = [tps |-> 0]
  /\ stage_node_results = <<>>
  /\ results = <<>>
  /\ errors = <<>>
  /\ warnings = <<>>
  /\ deviations = 0
  /\ output = <<>>
  /\ calibration = <<>>

(* The process ends: exit(status) in the script body, or an exception (or  *)
(* execute_command's exit(1)) that nothing catches, which ends it with     *)
(* status 1.                                                               *)
Exit(status) == pc' = "exit" /\ exit_code' = Some(status)
Raise == pc' = "raised" /\ exit_code' = Some(1)

Launch(cmd, test, outcome) ==
  commands' = Append(commands, Command(cmd, test, outcome))

(* Lines 547-549: the build of the Move e2e benchmark, outside the try. *)
SkipMoveE2E ==
  /\ pc = "move_e2e_build"
  /\ SKIP_MOVE_E2E
  /\ pc' = "calibration"
  /\ UNCHANGED <<env, texts, exit_code, commands, move_e2e_benchmark_failed,
                 calibrated_expected_tps, loop_state, lists, deviations>>

BuildMoveE2E ==
  /\ pc = "move_e2e_build"
  /\ ~SKIP_MOVE_E2E
  /\ \E outcome \in Outcomes :
       /\ Launch("cargo build aptos-move-e2e-benchmark", NoTest, outcome)
       /\ IF outcome = "ok"
          THEN pc' = "move_e2e_run" /\ UNCHANGED exit_code
          ELSE Raise
  /\ UNCHANGED <<env, texts, move_e2e_benchmark_failed, calibrated_expected_tps,
                 loop_state, lists, deviations>>

(* A variant that records the failure in every flow and never exits. *)
RunMoveE2ENeverAborts ==
  /\ pc = "move_e2e_run"
  /\ \E outcome \in Outcomes :
       /\ Launch("aptos-move-e2e-benchmark", NoTest, outcome)
       /\ move_e2e_benchmark_failed' = (outcome # "ok")
       /\ pc' = "calibration"
       /\ UNCHANGED exit_code
  /\ UNCHANGED <<env, texts, calibrated_expected_tps, loop_state, lists,
                 deviations>>

(* Lines 550-558: the bare except catches CmdExecutionError and the        *)
(* SystemExit of execute_command alike.                                    *)
RunMoveE2E ==
  /\ pc = "move_e2e_run"
  /\ \E outcome \in Outcomes :
       /\ Launch("aptos-move-e2e-benchmark", NoTest, outcome)
       /\ IF outcome = "ok"
          THEN /\ pc' = "calibration"
               /\ UNCHANGED <<exit_code, move_e2e_benchmark_failed>>
          ELSE IF SELECTED_FLOW = "LAND_BLOCKING"
          THEN Exit(1) /\ UNCHANGED move_e2e_benchmark_failed
          ELSE /\ move_e2e_benchmark_failed' = TRUE
               /\ pc' = "calibration"
               /\ UNCHANGED exit_code
  /\ UNCHANGED <<env, texts, calibrated_expected_tps, loop_state, lists, deviations>>

(* Lines 560-579. *)
ParseCalibration ==
  /\ pc = "calibration"
  /\ IF CalibrationParses(CALIBRATION)
     THEN /\ calibrated_expected_tps' = ParseCalibrationTable(CALIBRATION)
          /\ pc' = "build"
          /\ UNCHANGED exit_code
     ELSE Raise /\ UNCHANGED calibrated_expected_tps
  /\ UNCHANGED <<env, texts, commands, move_e2e_benchmark_failed, loop_state, lists,
                 deviations>>

(* Line 581. *)
BuildBenchmark ==
  /\ pc = "build"
  /\ \E outcome \in Outcomes :
       /\ Launch("cargo build aptos-executor-benchmark", NoTest, outcome)
       /\ IF outcome = "ok"
          THEN pc' = "warmup" /\ UNCHANGED exit_code
          ELSE Raise
  /\ UNCHANGED <<env, texts, move_e2e_benchmark_failed, calibrated_expected_tps,
                 loop_state, lists, deviations>>

(* What a create-db run prints: the values of its "Overall TPS" lines. *)
WarmupTps == Tps(50000)
WarmupOutputs ==
  {[outcome |-> o, tps |-> <<>>] : o \in Outcomes}
    \cup {[outcome |-> "ok", tps |-> <<WarmupTps>>],
          [outcome |-> "ok", tps |-> <<WarmupTps, WarmupTps>>]}

(* Lines 582-596: the warmup and its record. *)
Warmup ==
  /\ pc = "warmup"
  /\ \E printed \in WarmupOutputs :
       /\ Launch("create-db", NoTest, printed.outcome)
       /\ IF printed.outcome = "ok" /\ GetOnlyOK(printed.tps)
          THEN /\ results' = <<RunGroupInstance(Key("warmup", 1, "VM"),
                                                get_only(printed.tps), 0)>>
               /\ test_index' = 0
               /\ pc' = "loop"
               /\ UNCHANGED exit_code
          ELSE Raise /\ UNCHANGED <<results, test_index>>
  /\ UNCHANGED <<env, texts, move_e2e_benchmark_failed, calibrated_expected_tps,
                 criteria, single_node_result, stage_node_results, errors,
                 warnings, deviations>>

-----------------------------------------------------------------------------
(* A variant that skips native tests only and runs every flow's tests. *)
SelectedWhateverFlow(test, flow, disable_fa_apt) ==
  ~(SKIP_NATIVE(disable_fa_apt) /\ test.key.executor_type = "native")

(* Lines 602-606. *)
Selected(test, flow, disable_fa_apt) ==
  /\ flow \in test.included_in
  /\ ~(SKIP_NATIVE(disable_fa_apt) /\ test.key.executor_type = "native")

InLoop == pc = "loop" /\ test_index < Len(TESTS)
CurrentTest == TESTS[test_index + 1]

(* Lines 602-606: continue. *)
SkipTest ==
  /\ InLoop
  /\ ~Selected(CurrentTest, SELECTED_FLOW, DISABLE_FA_APT)
  /\ test_index' = test_index + 1
  /\ UNCHANGED <<env, texts, pc, exit_code, commands, move_e2e_benchmark_failed,
                 calibrated_expected_tps, criteria, single_node_result,
                 stage_node_results, lists, deviations>>

(* Lines 608-640 raise for a test with neither an override nor a table     *)
(* entry (the assert of line 618) and for an entry whose count is zero.    *)
ThresholdsRaise(test, table) ==
  \/ ~ThresholdsConfigured(test, table)
  \/ IsNone(test.expected_tps) /\ table[test.key].count = 0

(* Lines 658-665. *)
ExecutorSupported(test) == test.key.executor_type \in {"VM", "native", "sharded"}

(* The throughputs a run may measure besides the expected one: around each *)
(* threshold, the value on it and the value next to it on the far side.    *)
TpsCandidates(c) ==
  {t \in {c.min_tps - 1, c.min_tps, c.min_warn_tps - 1, c.min_warn_tps,
          c.max_warn_tps, c.max_warn_tps + 1, c.max_tps, c.max_tps + 1} :
     t >= 0 /\ t # c.expected_tps}

StageTpsCandidates(c) == {t \in {c.min_tps - 1} : t >= 0}

RECURSIVE SeqsOfLen(_, _)
SeqsOfLen(S, n) ==
  IF n = 0 THEN {<<>>}
  ELSE {Append(q, x) : q \in SeqsOfLen(S, n - 1), x \in S}

(* What a benchmark run prints: how the process ended, the values of the   *)
(* "Overall TPS" lines, and the throughput of each stage section.          *)
BenchmarkOutput(outcome, tps, stages) ==
  [outcome |-> outcome, tps |-> tps, stages |-> stages]

NominalOutput(c) == BenchmarkOutput("ok", <<c.expected_tps>>, <<>>)

BenchmarkOutputs(c, may_deviate) ==
  {NominalOutput(c)}
    \cup IF may_deviate
         THEN {BenchmarkOutput(o, <<>>, <<>>) : o \in Outcomes}
                \cup {BenchmarkOutput("ok", <<c.expected_tps, c.expected_tps>>, <<>>)}
                \cup {BenchmarkOutput("ok", <<t>>, <<>>) : t \in TpsCandidates(c)}
                \cup UNION {{BenchmarkOutput("ok", <<c.expected_tps>>, st) :
                               st \in SeqsOfLen(StageTpsCandidates(c), n)} :
                            n \in 1..MaxStages}
         ELSE {}

StageInstances(key, stages, expected_tps) ==
  [s \in 1..Len(stages) |->
     RunGroupInstance(StageKey(key, s - 1), stages[s], expected_tps)]

(* A variant that appends the text to both lists alike. *)
ClassifiedInBothLists(list, name, test, tps, c, flow) ==
  LET tier == Tier(tps, c, SKIP_PERF_IMPROVEMENT_NOTICE(flow))
  IN IF Destination(tier, test.waived) # "none"
     THEN Append(list, Text(tier, tps, c, test.key))
     ELSE list

(* Lines 787-810: the lists after the classification of the overall result. *)
Classified(list, name, test, tps, c, flow) ==
  LET tier == Tier(tps, c, SKIP_PERF_IMPROVEMENT_NOTICE(flow))
  IN IF Destination(tier, test.waived) = name
     THEN Append(list, Text(tier, tps, c, test.key))
     ELSE list

(* Lines 608-810: one iteration of the loop for a selected test: its       *)
(* Criteria, the benchmark run, the extraction of the overall result and   *)
(* of the stages, their records, and the classification.                   *)
RunTest ==
  /\ InLoop
  /\ Selected(CurrentTest, SELECTED_FLOW, DISABLE_FA_APT)
  /\ LET test == CurrentTest
         c == ComputeCriteria(test, calibrated_expected_tps, SELECTED_FLOW)
     IN IF ThresholdsRaise(test, calibrated_expected_tps)
        THEN /\ Raise
             /\ UNCHANGED <<commands, test_index, criteria, single_node_result,
                            stage_node_results, lists, deviations>>
        ELSE IF ~ExecutorSupported(test)
        THEN /\ Raise
             /\ criteria' = c
             /\ UNCHANGED <<commands, test_index, single_node_result,
                            stage_node_results, lists, deviations>>
        ELSE \E printed \in BenchmarkOutputs(c, deviations < MaxDeviations) :
               /\ criteria' = c
               /\ Launch("run-executor", Some(test_index), printed.outcome)
               /\ IF printed.outcome = "ok" /\ GetOnlyOK(printed.tps)
                  THEN LET tps == get_only(printed.tps)
                       IN /\ single_node_result' = [tps |-> tps]
                          /\ stage_node_results' =
                               [s \in 1..Len(printed.stages) |->
                                  <<s - 1, [tps |-> printed.stages[s]]>>]
                          /\ results' =
                               Append(results,
                                      RunGroupInstance(test.key, tps, c.expected_tps))
                                 \o StageInstances(test.key, printed.stages,
                                                   c.expected_tps)
                          /\ errors' = Classified(errors, "errors", test, tps, c,
                                                  SELECTED_FLOW)
                          /\ warnings' = Classified(warnings, "warnings", test, tps,
                                                    c, SELECTED_FLOW)
                          /\ deviations' =
                               IF deviations > 0 \/ printed # NominalOutput(c)
                               THEN deviations + 1 ELSE deviations
                          /\ test_index' = test_index + 1
                          /\ UNCHANGED <<pc, exit_code>>
                  ELSE /\ Raise
                       /\ UNCHANGED <<test_index, single_node_result,
                                      stage_node_results, lists, deviations>>
  /\ UNCHANGED <<env, texts, move_e2e_benchmark_failed, calibrated_expected_tps>>

(* A variant that looks at the errors alone. *)
ExitStatusOfErrorsAlone(errs, e2e_failed) ==
  IF errs # <<>> THEN 1 ELSE 0

(* Lines 812-838: the status the script ends with. *)
ExitStatus(errs, e2e_failed) ==
  IF errs # <<>> THEN 1 ELSE IF e2e_failed THEN 1 ELSE 0

Report ==
  /\ pc = "loop"
  /\ test_index = Len(TESTS)
  /\ Exit(ExitStatus(errors, move_e2e_benchmark_failed))
  /\ UNCHANGED <<env, texts, commands, move_e2e_benchmark_failed,
                 calibrated_expected_tps, loop_state, lists, deviations>>

Next ==
  \/ SkipMoveE2E
  \/ BuildMoveE2E
  \/ RunMoveE2E
  \/ ParseCalibration
  \/ BuildBenchmark
  \/ Warmup
  \/ SkipTest
  \/ RunTest
  \/ Report

Spec == Init /\ [][Next]_vars

-----------------------------------------------------------------------------
(* The threshold calculation on its own: lines 560-579 and 608-640 for one *)
(* test of the catalog, with the shipped calibration text, an empty one,   *)
(* or a one-row text for the test's key in the place of CALIBRATION, and   *)
(* again with another text in that place.                                  *)
CalcKeys == {Key("apt-fa-transfer", 1, "VM"), Key("apt-fa-transfer", 1, "native")}

CalcTestIndexes == {i \in 0..(Len(TESTS) - 1) : TESTS[i + 1].key \in CalcKeys}

CalcRow(key, count, min_ratio, max_ratio, tps) ==
  <<W(key.transaction_type), N(key.module_working_set_size, 0),
    W(key.executor_type), N(count, 0), min_ratio, max_ratio, tps>>

(* Columns an export may add to the seven of the schema, before them or    *)
(* between executor_type and count.                                        *)
ExtraColumns == {<<W("run")>>, <<W("run"), N(7, 0)>>}

CalcTexts ==
  {CALIBRATION, <<>>}
    \cup {<<CalcRow(key, count, min_ratio, max_ratio, tps)>> :
            key \in CalcKeys, count \in CalcCounts, min_ratio \in CalcMinRatios,
            max_ratio \in CalcMaxRatios, tps \in CalcTps}
    \cup {<<extra \o CalcRow(key, 1, N(857, 3), N(1086, 3), N(427377, 1))>> :
            extra \in ExtraColumns, key \in CalcKeys}
    \cup {<<SubSeq(CalcRow(key, 1, N(857, 3), N(1086, 3), N(427377, 1)), 1, 3)
               \o extra
               \o SubSeq(CalcRow(key, 1, N(857, 3), N(1086, 3), N(427377, 1)), 4, 7)>> :
            extra \in ExtraColumns, key \in CalcKeys}

ShippedTable == ParseCalibrationTable(CALIBRATION)

CalcInit ==
  /\ SELECTED_FLOW \in Flows
  /\ DISABLE_FA_APT = FALSE
  /\ SKIP_MOVE_E2E = TRUE
  /\ pc = "calc_parse"
  /\ exit_code = None
  /\ commands = <<>>
  /\ move_e2e_benchmark_failed = FALSE
  /\ calibrated_expected_tps = <<>>
  /\ test_index \in CalcTestIndexes
  /\ criteria = NoCriteria
  /\ single_node_result = [tps |-> 0]
  /\ stage_node_results = <<>>
  /\ results = <<>>
  /\ errors = <<>>
  /\ warnings = <<>>
  /\ deviations = 0
  /\ output = <<>>
  /\ calibration = <<>>

(* Lines 560-579 on a text. *)
CalcTable(text) ==
  /\ calibration' = text
  /\ IF CalibrationParses(text)
     THEN /\ calibrated_expected_tps' = ParseCalibrationTable(text)
          /\ pc' = "calc_criteria"
          /\ UNCHANGED exit_code
     ELSE Raise /\ UNCHANGED calibrated_expected_tps

CalcParse ==
  /\ pc = "calc_parse"
  /\ \E text \in CalcTexts : CalcTable(text)
  /\ UNCHANGED <<env, output, commands, move_e2e_benchmark_failed, loop_state, lists,
                 deviations>>

(* Lines 608-640 for the current test. *)
CalcCriteria ==
  /\ pc = "calc_criteria"
  /\ IF ThresholdsRaise(CurrentTest, calibrated_expected_tps)
     THEN Raise /\ UNCHANGED criteria
     ELSE /\ criteria' = ComputeCriteria(CurrentTest, calibrated_expected_tps,
                                         SELECTED_FLOW)
          /\ pc' = "calc_done"
          /\ UNCHANGED exit_code
  /\ UNCHANGED <<env, texts, commands, move_e2e_benchmark_failed,
                 calibrated_expected_tps, test_index, single_node_result,
                 stage_node_results, lists, deviations>>

(* The same test and flow run again with another text; the Criteria of the *)
(* run before stay in view until the new ones are computed.                *)
CalcRecalibrate ==
  /\ pc = "calc_done"
  /\ \E text \in CalcTexts : CalcTable(text)
  /\ UNCHANGED <<env, output, commands, move_e2e_benchmark_failed, loop_state, lists,
                 deviations>>

CalcNext ==
  \/ CalcParse
  \/ CalcCriteria
  \/ CalcRecalibrate

CalcSpec == CalcInit /\ [][CalcNext]_vars

-----------------------------------------------------------------------------
(* The extraction of results on its own: lines 583-593 and 685-693 on the  *)
(* text a process printed.  A text is the sequence of its metric lines; a  *)
(* line holds what comes before the metric's name, the metric, and the     *)
(* numeral printed.                                                        *)
Line(prefix, metric, value) ==
  [prefix |-> prefix, metric |-> metric, value |-> value]

(* The metrics read through get_only, each with the regex of its line. *)
GetOnlyMetrics ==
  {"TPS", "GPS", "effectiveGPS", "ioGPS", "executionGPS", "GPT",
   "Storage fee", "output"}

(* The metrics read as the last element of the matches. *)
LastMetrics ==
  {"fraction of total in execution", "fraction of execution in VM",
   "fraction of total in commit"}

CreateDbMetric == "TPS: create_db: account creation"

(* re.findall(prefix + regex of the metric, output): the numerals of the   *)
(* matching lines, in the order of the text.                               *)
findall(prefix, metric, text) ==
  LET hits == SelectSeq(text, LAMBDA line :
                                line.prefix = prefix /\ line.metric = metric)
  IN [i \in 1..Len(hits) |-> hits[i].value]

(* values[-1]: IndexError on an empty list. *)
LastOK(values) == values # <<>>
Last(values) == values[Len(values)]

RunResults(tps, gps, effective_gps, io_gps, execution_gps, gpt,
           storage_fee_pt, output_bps, fraction_in_execution,
           fraction_of_execution_in_vm, fraction_in_commit) ==
  [tps |-> tps, gps |-> gps, effective_gps |-> effective_gps,
   io_gps |-> io_gps, execution_gps |-> execution_gps, gpt |-> gpt,
   storage_fee_pt |-> storage_fee_pt, output_bps |-> output_bps,
   fraction_in_execution |-> fraction_in_execution,
   fraction_of_execution_in_vm |-> fraction_of_execution_in_vm,
   fraction_in_commit |-> fraction_in_commit]

(* extract_run_results raises: the assert of get_only, or the IndexError   *)
(* of [-1].                                                                *)
ExtractionRaises(text, prefix, create_db) ==
  IF create_db
  THEN ~GetOnlyOK(findall("Overall", CreateDbMetric, text))
  ELSE \/ \E metric \in GetOnlyMetrics :
            ~GetOnlyOK(findall(prefix, metric, text))
       \/ \E metric \in LastMetrics : ~LastOK(findall(prefix, metric, text))

(* extract_run_results when it does not raise. *)
extract_run_results(text, prefix, create_db) ==
  LET only(metric) ==
        ParseFloat(get_only(findall(prefix, metric, text)), TpsScale)
      last(metric) ==
        ParseFloat(Last(findall(prefix, metric, text)), RatioScale)
  IN IF create_db
     THEN RunResults(ParseFloat(get_only(findall("Overall", CreateDbMetric,
                                                 text)), TpsScale),
                     0, 0, 0, 0, 0, 0, 0, 0, 0, 0)
     ELSE RunResults(only("TPS"), only("GPS"), only("effectiveGPS"),
                     only("ioGPS"), only("executionGPS"), only("GPT"),
                     only("Storage fee"), only("output"),
                     last("fraction of total in execution"),
                     last("fraction of execution in VM"),
                     last("fraction of total in commit"))

(* Lines 688-693: the stage sections the loop finds, counted from 0 until  *)
(* the first prefix that is not in the text.                               *)
StagePrefix(i) == "Staged execution: stage " \o ToString(i) \o ":"

PrefixIn(prefix, text) == \E n \in 1..Len(text) : text[n].prefix = prefix

RECURSIVE StagesFound(_, _)
StagesFound(text, i) ==
  IF PrefixIn(StagePrefix(i), text) THEN StagesFound(text, i + 1) ELSE i

(* The texts: a section of one line per metric for "Overall" and for each  *)
(* of up to MaxStages stages, as printed, or with one line left out, or    *)
(* with one line printed once more at the end, with the same numeral or    *)
(* with another.                                                           *)
MetricOrder ==
  <<"TPS", "GPS", "effectiveGPS", "ioGPS", "executionGPS", "GPT",
    "Storage fee", "output", "fraction of total in execution",
    "fraction of execution in VM", "fraction of total in commit">>

Printed == N(25, 1)
PrintedAgain == {N(25, 1), N(5, 1)}

Section(prefix) ==
  [n \in 1..Len(MetricOrder) |-> Line(prefix, MetricOrder[n], Printed)]

RECURSIVE Sections(_)
Sections(n) ==
  IF n = 0 THEN Section("Overall")
  ELSE Sections(n - 1) \o Section(StagePrefix(n - 1))

Without(text, n) == SubSeq(text, 1, n - 1) \o SubSeq(text, n + 1, Len(text))

ExtractTextsOf(text) ==
  {text}
    \cup {Without(text, n) : n \in 1..Len(text)}
    \cup {Append(text, Line(text[n].prefix, text[n].metric, v)) :
            n \in 1..Len(text), v \in PrintedAgain}

ExtractTexts == UNION {ExtractTextsOf(Sections(n)) : n \in 0..MaxStages}

WarmupLine == Line("Overall", CreateDbMetric, N(50000, 0))
WarmupTexts == {<<>>, <<WarmupLine>>, <<WarmupLine, WarmupLine>>}

ExtractInit ==
  /\ SELECTED_FLOW = "CONTINUOUS"
  /\ DISABLE_FA_APT = FALSE
  /\ SKIP_MOVE_E2E = TRUE
  /\ pc = "extract_warmup"
  /\ exit_code = None
  /\ commands = <<>>
  /\ move_e2e_benchmark_failed = FALSE
  /\ calibrated_expected_tps = <<>>
  /\ test_index = 0
  /\ criteria = NoCriteria
  /\ single_node_result = [tps |-> 0]
  /\ stage_node_results = <<>>
  /\ results = <<>>
  /\ errors = <<>>
  /\ warnings = <<>>
  /\ deviations = 0
  /\ output = <<>>
  /\ calibration = <<>>

(* Lines 583-593 on the text of the create-db run. *)
ExtractWarmup ==
  /\ pc = "extract_warmup"
  /\ \E text \in WarmupTexts :
       /\ output' = text
       /\ IF ExtractionRaises(text, "Overall", TRUE)
          THEN Raise /\ UNCHANGED results
          ELSE /\ results' =
                    <<RunGroupInstance(Key("warmup", 1, "VM"),
                                       extract_run_results(text, "Overall", TRUE).tps,
                                       0)>>
               /\ pc' = "extract_test"
               /\ UNCHANGED exit_code
  /\ UNCHANGED <<env, calibration, commands, move_e2e_benchmark_failed,
                 calibrated_expected_tps, loop_state, errors, warnings,
                 deviations>>

(* Lines 685-693 on the text of a benchmark run. *)
ExtractTest ==
  /\ pc = "extract_test"
  /\ \E text \in ExtractTexts :
       LET stages == StagesFound(text, 0)
       IN /\ output' = text
          /\ IF ExtractionRaises(text, "Overall", FALSE)
             THEN Raise /\ UNCHANGED <<single_node_result, stage_node_results>>
             ELSE IF \E i \in 0..(stages - 1) :
                       ExtractionRaises(text, StagePrefix(i), FALSE)
             THEN /\ Raise
                  /\ single_node_result' =
                       extract_run_results(text, "Overall", FALSE)
                  /\ UNCHANGED stage_node_results
             ELSE /\ single_node_result' =
                       extract_run_results(text, "Overall", FALSE)
                  /\ stage_node_results' =
                       [s \in 1..stages |->
                          <<s - 1,
                            extract_run_results(text, StagePrefix(s - 1), FALSE)>>]
                  /\ pc' = "extracted"
                  /\ UNCHANGED exit_code
  /\ UNCHANGED <<env, calibration, commands, move_e2e_benchmark_failed,
                 calibrated_expected_tps, test_index, criteria, lists,
                 deviations>>

ExtractNext ==
  \/ ExtractWarmup
  \/ ExtractTest

ExtractSpec == ExtractInit /\ [][ExtractNext]_vars

-----------------------------------------------------------------------------
(* What the properties below read off a state or a step. *)

(* The prerequisite Move e2e benchmark was run and failed. *)
MoveE2EFailed ==
  \E i \in 1..Len(commands) :
    commands[i].cmd = "aptos-move-e2e-benchmark" /\ ~commands[i].ok

(* The tests (0-based) whose benchmark was launched. *)
ExecutedTests ==
  {Get(commands[j].test) :
     j \in {n \in 1..Len(commands) : commands[n].cmd = "run-executor"}}

Executed(i) == i \in ExecutedTests

(* The step is an iteration that ran a test and classified its result. *)
TestClassified == pc = "loop" /\ pc' = "loop" /\ commands' # commands

(* The state follows such an iteration: the last test run is TESTS[n + 1]. *)
AfterTest(n) ==
  /\ pc = "loop"
  /\ commands # <<>>
  /\ commands[Len(commands)] = Command("run-executor", Some(n), "ok")
  /\ test_index = n + 1

OneMore(list, tier) ==
  /\ Len(list') = Len(list) + 1
  /\ SubSeq(list', 1, Len(list)) = list
  /\ list'[Len(list')].tier = tier
  /\ list'[Len(list')].tps = single_node_result'.tps

(* C1: when the script runs to one of its own exits (the final exit        *)
(* handling, or the exit on a failed prerequisite in LAND_BLOCKING), the   *)
(* status is non-zero exactly when errors is non-empty or the prerequisite *)
(* Move e2e benchmark failed; warnings do not count.                       *)
ExitStatusIsErrorsOrPrerequisite ==
  pc = "exit" => (Get(exit_code) # 0 <=> (errors # <<>> \/ MoveE2EFailed))

WarningsOnlyExitZero ==
  /\ pc = "exit"
  /\ exit_code = Some(0)
  /\ warnings # <<>>
  /\ errors = <<>>
  /\ ~MoveE2EFailed

(* C2: a test measured strictly below min_tps adds exactly one text, of    *)
(* the regression tier: to errors when the config is not waived, to        *)
(* warnings when it is; the other list is untouched.                       *)
RegressionRecordedOnce ==
  [][(TestClassified /\ single_node_result'.tps < criteria'.min_tps) =>
       IF ~CurrentTest.waived
       THEN OneMore(errors, "regression") /\ warnings' = warnings
       ELSE OneMore(warnings, "regression") /\ errors' = errors]_vars

WaivedRegressionWarned ==
  \E n \in 0..(Len(TESTS) - 1) :
    /\ AfterTest(n)
    /\ single_node_result.tps < criteria.min_tps
    /\ TESTS[n + 1].waived
    /\ errors = <<>>
    /\ Len(warnings) = 1
    /\ warnings[1].tier = "regression"

(* C3: with improvement notices not suppressed, a test measured above      *)
(* max_tps and not below min_warn_tps adds exactly one text, of the        *)
(* improvement tier: to errors when not waived, to warnings when waived.   *)
ImprovementRecordedOnce ==
  [][(/\ TestClassified
      /\ ~IS_MAINNET(SELECTED_FLOW)
      /\ single_node_result'.tps > criteria'.max_tps
      /\ single_node_result'.tps >= criteria'.min_warn_tps) =>
       IF ~CurrentTest.waived
       THEN OneMore(errors, "improvement") /\ warnings' = warnings
       ELSE OneMore(warnings, "improvement") /\ errors' = errors]_vars

UnwaivedImprovementIsError ==
  \E n \in 0..(Len(TESTS) - 1) :
    /\ AfterTest(n)
    /\ single_node_result.tps > criteria.max_tps
    /\ ~TESTS[n + 1].waived
    /\ warnings = <<>>
    /\ Len(errors) = 1
    /\ errors[1].tier = "improvement"

(* C4: a test measured in [min_tps, min_warn_tps) adds exactly one         *)
(* warning, of the soft-low tier, and no error, in every flow and whether  *)
(* or not the config is waived.                                            *)
SoftLowWarnsOnly ==
  [][(/\ TestClassified
      /\ criteria'.min_tps <= single_node_result'.tps
      /\ single_node_result'.tps < criteria'.min_warn_tps) =>
       OneMore(warnings, "soft_low") /\ errors' = errors]_vars

SoftLowOnMinTps ==
  \E n \in 0..(Len(TESTS) - 1) :
    /\ AfterTest(n)
    /\ single_node_result.tps = criteria.min_tps
    /\ ~TESTS[n + 1].waived
    /\ errors = <<>>
    /\ Len(warnings) = 1
    /\ warnings[1].tier = "soft_low"

(* C5: with improvement notices not suppressed, a test measured in         *)
(* (max_warn_tps, max_tps] and not below min_warn_tps adds exactly one     *)
(* warning, of the soft-high tier, and no error.                           *)
SoftHighWarnsOnly ==
  [][(/\ TestClassified
      /\ ~IS_MAINNET(SELECTED_FLOW)
      /\ criteria'.max_warn_tps < single_node_result'.tps
      /\ single_node_result'.tps <= criteria'.max_tps
      /\ single_node_result'.tps >= criteria'.min_warn_tps) =>
       OneMore(warnings, "soft_high") /\ errors' = errors]_vars

SoftHighOnMaxTps ==
  \E n \in 0..(Len(TESTS) - 1) :
    /\ AfterTest(n)
    /\ single_node_result.tps = criteria.max_tps
    /\ ~TESTS[n + 1].waived
    /\ errors = <<>>
    /\ Len(warnings) = 1
    /\ warnings[1].tier = "soft_high"

(* C6: in MAINNET and MAINNET_LARGE_DB a test measured above max_warn_tps  *)
(* (however far above max_tps) and not below min_tps adds nothing to       *)
(* errors or warnings, and no text there is of the improvement or          *)
(* soft-high tier; in every other flow such a test, when not below         *)
(* min_warn_tps, adds one text of one of these two tiers.                  *)
ImprovementTiersOffInMainnetOnly ==
  [][(/\ TestClassified
      /\ single_node_result'.tps > criteria'.max_warn_tps
      /\ single_node_result'.tps >= criteria'.min_tps
      /\ single_node_result'.tps >= criteria'.min_warn_tps) =>
       IF SELECTED_FLOW \in {"MAINNET", "MAINNET_LARGE_DB"}
       THEN errors' = errors /\ warnings' = warnings
       ELSE \E tier \in {"improvement", "soft_high"} :
              \/ OneMore(errors, tier) /\ warnings' = warnings
              \/ OneMore(warnings, tier) /\ errors' = errors]_vars

MainnetLargeDbAboveMaxSilent ==
  \E n \in 0..(Len(TESTS) - 1) :
    /\ AfterTest(n)
    /\ SELECTED_FLOW = "MAINNET_LARGE_DB"
    /\ single_node_result.tps > criteria.max_tps
    /\ errors = <<>>
    /\ warnings = <<>>

(* C7 as stated: once the loop is through, the tests executed are exactly  *)
(* those whose included_in holds the active flow.                          *)
ExecutedIffFlowIncluded ==
  (pc = "exit" /\ test_index = Len(TESTS)) =>
    ExecutedTests =
      {i \in 0..(Len(TESTS) - 1) : SELECTED_FLOW \in TESTS[i + 1].included_in}

(* C7 amended: at every point of a run, the tests the loop has passed     *)
(* that were executed are exactly those whose included_in holds the       *)
(* active flow and that are not native-executor tests skipped because     *)
(* DISABLE_FA_APT is unset; a test the loop has not passed was executed   *)
(* only if it is the one whose iteration ended the run, and then it meets *)
(* the same condition.                                                    *)
ExecutedIffIncludedAndNotSkippedNative ==
  LET included(i) ==
        /\ SELECTED_FLOW \in TESTS[i + 1].included_in
        /\ ~(~DISABLE_FA_APT /\ TESTS[i + 1].key.executor_type = "native")
  IN /\ ExecutedTests \ {test_index} =
          {i \in 0..(test_index - 1) : included(i)}
     /\ test_index \in ExecutedTests =>
          (pc = "raised" /\ included(test_index))

NativeSkippedOthersExecuted ==
  /\ pc = "exit"
  /\ test_index = Len(TESTS)
  /\ \E i \in 0..(Len(TESTS) - 1) :
       /\ SELECTED_FLOW \in TESTS[i + 1].included_in
       /\ TESTS[i + 1].key.executor_type = "native"
       /\ ~Executed(i)
  /\ \E i \in 0..(Len(TESTS) - 1) : Executed(i)

(* C8: every Criteria the loop computes is ordered                         *)
(* min_tps <= min_warn_tps <= expected_tps <= max_warn_tps <= max_tps.     *)
Ordered(c) ==
  /\ c.min_tps <= c.min_warn_tps
  /\ c.min_warn_tps <= c.expected_tps
  /\ c.expected_tps <= c.max_warn_tps
  /\ c.max_warn_tps <= c.max_tps

EveryCriteriaOrdered == Ordered(criteria)

(* C9: every row of the shipped calibration table has                      *)
(* min_ratio <= 1 <= max_ratio, and the Criteria computed on the           *)
(* calibrated path from an entry with count >= 1, expected_tps > 0 and     *)
(* min_ratio <= 1 <= max_ratio is ordered.                                 *)
CalibratedCriteriaOrdered ==
  /\ calibrated_expected_tps = ShippedTable =>
       \A key \in DOMAIN calibrated_expected_tps :
         /\ calibrated_expected_tps[key].min_ratio <= RatioScale
         /\ RatioScale <= calibrated_expected_tps[key].max_ratio
  /\ (pc = "calc_done" /\ IsNone(CurrentTest.expected_tps)) =>
       LET cal == calibrated_expected_tps[CurrentTest.key]
       IN (/\ cal.count >= 1
           /\ cal.expected_tps > 0
           /\ cal.min_ratio <= RatioScale
           /\ RatioScale <= cal.max_ratio) => Ordered(criteria)

SingleSampleCriteriaOrdered ==
  /\ pc = "calc_done"
  /\ IsNone(CurrentTest.expected_tps)
  /\ calibrated_expected_tps[CurrentTest.key].count = 1
  /\ calibrated_expected_tps[CurrentTest.key].min_ratio < RatioScale
  /\ calibrated_expected_tps[CurrentTest.key].max_ratio > RatioScale
  /\ criteria.min_tps < criteria.min_warn_tps
  /\ criteria.min_warn_tps < criteria.expected_tps
  /\ criteria.expected_tps < criteria.max_warn_tps
  /\ criteria.max_warn_tps < criteria.max_tps

(* C10: for a test with an expected_tps override, the Criteria computed    *)
(* after the calibration text was replaced by any other (with or without   *)
(* a row for the test's key, whatever the row holds) are the Criteria      *)
(* computed before, and the computation does not fail for want of a        *)
(* usable row.                                                             *)
OverrideIgnoresTable ==
  [][(/\ pc = "calc_criteria"
      /\ ~IsNone(CurrentTest.expected_tps)
      /\ criteria # NoCriteria) =>
       (pc' = "calc_done" /\ criteria' = criteria)]_vars

OverrideBesideTableEntry ==
  /\ pc = "calc_done"
  /\ ~IsNone(CurrentTest.expected_tps)
  /\ CurrentTest.key \in DOMAIN calibrated_expected_tps
  /\ calibrated_expected_tps[CurrentTest.key].count >= 1
  /\ criteria.expected_tps = Get(CurrentTest.expected_tps)
  /\ criteria.expected_tps # calibrated_expected_tps[CurrentTest.key].expected_tps

-----------------------------------------------------------------------------
(* The run ended on the assert of line 618: the loop stands at a selected  *)
(* test that has neither an override nor a calibration entry.              *)
ConfigurationErrorRaised ==
  /\ pc = "raised"
  /\ results # <<>>
  /\ test_index < Len(TESTS)
  /\ Selected(CurrentTest, SELECTED_FLOW, DISABLE_FA_APT)
  /\ ~ThresholdsConfigured(CurrentTest, calibrated_expected_tps)

(* C11: when a test selected in the active flow has neither an override    *)
(* nor a calibration entry, the configuration error is raised before any   *)
(* external process was launched: no build, no prerequisite benchmark, no  *)
(* warmup, no benchmark run of an earlier test.                            *)
ConfigurationErrorBeforeAnyLaunch ==
  ConfigurationErrorRaised => commands = <<>>

(* C12: a test on the static-override path (expected_tps set) is treated   *)
(* as waived: whatever its classification, nothing is appended to errors.  *)
OverrideNeverAddsError ==
  [][(TestClassified /\ ~IsNone(CurrentTest.expected_tps)) =>
       errors' = errors]_vars

(* C13: every stage of an executed test is classified against the test's   *)
(* Criteria under its synthesized key: a stage measured below min_tps      *)
(* leaves a text of its own, under that key, in errors or in warnings.     *)
StageBelowMinTpsRecorded ==
  [][TestClassified =>
       \A s \in 1..Len(stage_node_results') :
         stage_node_results'[s][2].tps < criteria'.min_tps =>
           \E list \in {errors', warnings'} :
             \E i \in 1..Len(list) :
               list[i].key = StageKey(CurrentTest.key, stage_node_results'[s][1])]_vars

(* C14: for every metric extract_run_results reads, a text with no         *)
(* matching line or with more than one raises: when the extraction of a    *)
(* benchmark text went through, the text holds exactly one line per        *)
(* metric for "Overall" and for each stage found.                          *)
ExtractedOnlyFromSingleMatches ==
  pc = "extracted" =>
    \A prefix \in {"Overall"} \cup
                    {StagePrefix(i) : i \in 0..(StagesFound(output, 0) - 1)} :
      \A metric \in GetOnlyMetrics \cup LastMetrics :
        Len(findall(prefix, metric, output)) = 1

(* The tests (0-based) selected in the active flow. *)
SelectedTests ==
  {i \in 0..(Len(TESTS) - 1) :
     Selected(TESTS[i + 1], SELECTED_FLOW, DISABLE_FA_APT)}

(* C15: when the prerequisite Move e2e benchmark fails, in LAND_BLOCKING   *)
(* the process exits at once with status 1, the failed benchmark being the *)
(* last process launched; in every other flow the failure is recorded and  *)
(* the run goes on: when the loop is through, every test selected in the   *)
(* flow was executed, and the exit status is 1 whatever the errors list    *)
(* holds; a run that ends earlier never ends with status 0.                *)
PrerequisiteFailureDeferred ==
  MoveE2EFailed =>
    IF SELECTED_FLOW = "LAND_BLOCKING"
    THEN /\ pc = "exit"
         /\ exit_code = Some(1)
         /\ commands[Len(commands)].cmd = "aptos-move-e2e-benchmark"
    ELSE /\ move_e2e_benchmark_failed
         /\ pc # "exit" => exit_code # Some(0)
         /\ pc = "exit" =>
              /\ test_index = Len(TESTS)
              /\ ExecutedTests = SelectedTests
              /\ exit_code = Some(1)

PrerequisiteFailedNoErrorExitOne ==
  /\ MoveE2EFailed
  /\ SELECTED_FLOW # "LAND_BLOCKING"
  /\ pc = "exit"
  /\ errors = <<>>
  /\ ExecutedTests # {}
  /\ exit_code = Some(1)

(* The entry the current test's Criteria were computed from, when it is    *)
(* one the monotonicity statement is about.                                *)
NarrowingEntry ==
  /\ pc = "calc_done"
  /\ IsNone(CurrentTest.expected_tps)
  /\ calibrated_expected_tps[CurrentTest.key].count >= 1
  /\ calibrated_expected_tps[CurrentTest.key].expected_tps > 0
  /\ calibrated_expected_tps[CurrentTest.key].min_ratio <= RatioScale
  /\ RatioScale <= calibrated_expected_tps[CurrentTest.key].max_ratio

(* C16: on the calibrated path, with expected_tps > 0 and                  *)
(* min_ratio <= 1 <= max_ratio, the hard band computed from count c2       *)
(* contains [expected_tps * min_ratio, expected_tps * max_ratio] and lies  *)
(* within the band computed from any smaller count c1 >= 1 with the same   *)
(* throughput and ratios.                                                  *)
BandNarrowsWithCount ==
  NarrowingEntry =>
    LET cal == calibrated_expected_tps[CurrentTest.key]
    IN /\ criteria.min_tps <= MulDiv(cal.expected_tps, cal.min_ratio, RatioScale)
       /\ MulDiv(cal.expected_tps, cal.max_ratio, RatioScale) <= criteria.max_tps
       /\ \A c1 \in 1..(cal.count - 1) :
            LET wider == CalibratedCriteria([cal EXCEPT !.count = c1])
            IN /\ wider.min_tps <= criteria.min_tps
               /\ criteria.max_tps <= wider.max_tps

BandStrictlyNarrowerAtCountTwo ==
  /\ NarrowingEntry
  /\ calibrated_expected_tps[CurrentTest.key].count = 2
  /\ LET cal == calibrated_expected_tps[CurrentTest.key]
         wider == CalibratedCriteria([cal EXCEPT !.count = 1])
     IN /\ wider.min_tps < criteria.min_tps
        /\ criteria.min_tps < MulDiv(cal.expected_tps, cal.min_ratio, RatioScale)
        /\ MulDiv(cal.expected_tps, cal.max_ratio, RatioScale) < criteria.max_tps
        /\ criteria.max_tps < wider.max_tps

(* The seven schema columns of each row: the fields before them dropped. *)
SchemaColumns(text) ==
  [n \in 1..Len(text) |->
     IF Len(text[n]) > 7
     THEN SubSeq(text[n], Len(text[n]) - 6, Len(text[n]))
     ELSE text[n]]

(* C17 as stated: columns before the seven of the schema make no           *)
(* difference: a text whose rows parse without them parses with them, and  *)
(* to the same keys and entries.                                           *)
LeadingColumnsIgnored ==
  (pc \in {"calc_criteria", "raised"} /\ calibration # <<>>
     /\ CalibrationParses(SchemaColumns(calibration))) =>
    /\ CalibrationParses(calibration)
    /\ calibrated_expected_tps = ParseCalibrationTable(SchemaColumns(calibration))

(* The three key columns and the four value columns of each row: the       *)
(* fields between them dropped.                                            *)
KeyAndValueColumns(text) ==
  [n \in 1..Len(text) |->
     IF Len(text[n]) > 7
     THEN SubSeq(text[n], 1, 3) \o SubSeq(text[n], Len(text[n]) - 3, Len(text[n]))
     ELSE text[n]]

(* C17 amended: the key is read from the first three fields of a row and   *)
(* the entry from the last four, so columns between executor_type and      *)
(* count make no difference: a text whose rows parse without them parses   *)
(* with them, and to the same keys and entries.                            *)
MiddleColumnsIgnored ==
  (pc \in {"calc_criteria", "raised"} /\ calibration # <<>>
     /\ CalibrationParses(KeyAndValueColumns(calibration))) =>
    /\ CalibrationParses(calibration)
    /\ calibrated_expected_tps =
         ParseCalibrationTable(KeyAndValueColumns(calibration))

MiddleColumnsRowParsed ==
  /\ pc = "calc_criteria"
  /\ Len(calibration) = 1
  /\ Len(calibration[1]) > 7
  /\ RowKey(calibration[1]) \in CalcKeys
  /\ DOMAIN calibrated_expected_tps = {RowKey(calibration[1])}
  /\ calibrated_expected_tps[RowKey(calibration[1])] =
       CalibrationData(Tps(42737) + 7, 1, 857, 1086)

(* C18: a test measured within [min_warn_tps, max_warn_tps] passes: its    *)
(* iteration leaves errors and warnings as they were.                      *)
WithinWarnBandPasses ==
  [][(/\ TestClassified
      /\ criteria'.min_warn_tps <= single_node_result'.tps
      /\ single_node_result'.tps <= criteria'.max_warn_tps) =>
       (errors' = errors /\ warnings' = warnings)]_vars

IsPrefix(a, b) == Len(a) <= Len(b) /\ SubSeq(b, 1, Len(a)) = a

(* The step launched the benchmark of a test. *)
TestLaunched ==
  /\ commands' # commands
  /\ commands'[Len(commands')].cmd = "run-executor"

(* C19: errors, warnings and results only grow at their end; a step adds   *)
(* at most one entry to errors and warnings together, and none unless it   *)
(* is the iteration of an executed test: the warmup adds its record to     *)
(* results alone, a test that is not selected adds nothing anywhere.       *)
ListsAppendOnly ==
  [][/\ IsPrefix(errors, errors')
     /\ IsPrefix(warnings, warnings')
     /\ IsPrefix(results, results')
     /\ Len(errors') + Len(warnings') <= Len(errors) + Len(warnings) + 1
     /\ ~TestLaunched => (errors' = errors /\ warnings' = warnings)
     /\ (pc = "loop" /\ commands' = commands) => results' = results]_vars

ErrorKeptWhileLaterTestsRun ==
  /\ pc = "exit"
  /\ Len(errors) = 1
  /\ Len(results) > 3
  /\ errors[1].key = results[2].key
  /\ \E i \in 0..(Len(TESTS) - 1) : ~Executed(i)

(* C20: with the shipped catalog and table and DISABLE_FA_APT unset (the   *)
(* native-executor tests skipped), in every flow each test the loop        *)
(* selects has an override or a calibration entry, and no run ends on the  *)
(* assert of line 618, whatever the benchmarks measure.                    *)
ShippedConfigurationComplete ==
  ~DISABLE_FA_APT =>
    /\ ~ConfigurationErrorRaised
    /\ (InLoop /\ Selected(CurrentTest, SELECTED_FLOW, DISABLE_FA_APT)) =>
         ThresholdsConfigured(CurrentTest, calibrated_expected_tps)

DefaultRunThroughCalibratedTests ==
  /\ ~DISABLE_FA_APT
  /\ SELECTED_FLOW = "CONTINUOUS"
  /\ pc = "exit"
  /\ test_index = Len(TESTS)
  /\ ExecutedTests = SelectedTests
  /\ \E i \in ExecutedTests : IsNone(TESTS[i + 1].expected_tps)
  /\ \E i \in 0..(Len(TESTS) - 1) :
       /\ SELECTED_FLOW \in TESTS[i + 1].included_in
       /\ ~ThresholdsConfigured(TESTS[i + 1], calibrated_expected_tps)
  /\ errors # <<>>

=============================================================================
